---- MODULE Spec2Model ----
(***************************************************************************)
(* Model of the answer-routing core of src/advanced_paris_assistant.py:    *)
(* the knowledge base (ParisKB), the intent classifier (IntentClassifier), *)
(* the gateway wrapper (ChatClient.reply) and the router                   *)
(* (ParisAssistant.answer) with its running conversation.                  *)
(*                                                                         *)
(* Python str values are TLA+ strings (TLC evaluates Len, \o and SubSeq on *)
(* them).  Optional[T] is a sequence of length at most one: None is << >>  *)
(* and a present value x is <<x>>.  Python floats are decimal floating     *)
(* point numbers with an 8-digit mantissa (see Flt below).                 *)
(***************************************************************************)
EXTENDS Integers, Sequences, FiniteSets, TLC

VARIABLES
    conversation,  \* ParisAssistant.conversation: sequence of [role, content]
    before,        \* conversation as it was when the last answer call began
    question,      \* argument of the last answer (or classify) call
    returned,      \* Optional[str]: what the last answer call returned
    raised,        \* TRUE iff the last answer call ended by raising
    invoked,       \* number of ChatClient.reply invocations in the last call
    messages,      \* messages argument of that invocation (<< >> if none)
    outcome,       \* Optional: what the service did with that invocation
    path,          \* branch of answer the last call took
    calls,         \* number of answer calls made in this session
    fallbacks,     \* number of those calls that took the fallback path
    failures,      \* number of those calls whose gateway call raised
    intent,        \* Optional[str]: result of the last classify call
    nameA,         \* first argument of distance_report
    nameB,         \* second argument of distance_report
    report         \* Optional[Optional[str]]: result of the last distance_report

vars == <<conversation, before, question, returned, raised, invoked, messages,
          outcome, path, calls, fallbacks, failures, intent, nameA, nameB, report>>

None == << >>

Some(x) == <<x>>

(***************************************************************************)
(* Strings.                                                                *)
(***************************************************************************)
CharAt(s, i) == SubSeq(s, i, i)

UpperLetters == "ABCDEFGHIJKLMNOPQRSTUVWXYZ"

LowerLetters == "abcdefghijklmnopqrstuvwxyz"

\* The characters of the string s.
CharsOf(s) == {CharAt(s, i) : i \in 1..Len(s)}

\* The lower case of each upper-case letter.
LowerOf ==
    [c \in CharsOf(UpperLetters) |->
        CharAt(LowerLetters, CHOOSE i \in 1..Len(UpperLetters) : CharAt(UpperLetters, i) = c)]

\* str.lower() of one character (ASCII letters; every other character of the
\* model's alphabet is its own lower case).
LowerChar(c) == IF c \in DOMAIN LowerOf THEN LowerOf[c] ELSE c

RECURSIVE LowerFrom(_, _)
LowerFrom(s, i) ==
    IF i > Len(s) THEN "" ELSE LowerChar(CharAt(s, i)) \o LowerFrom(s, i + 1)

\* str.lower()
Lower(s) == LowerFrom(s, 1)

\* The Python expression  sub in s .
Contains(s, sub) ==
    \E i \in 1..(Len(s) - Len(sub) + 1) : SubSeq(s, i, i + Len(sub) - 1) = sub

\* Characters str.strip() removes.
IsSpace(c) == c \in {" ", "\n", "\t", "\r"}

RECURSIVE LStrip(_)
LStrip(s) ==
    IF Len(s) > 0 /\ IsSpace(CharAt(s, 1)) THEN LStrip(SubSeq(s, 2, Len(s))) ELSE s

RECURSIVE RStrip(_)
RStrip(s) ==
    IF Len(s) > 0 /\ IsSpace(CharAt(s, Len(s))) THEN RStrip(SubSeq(s, 1, Len(s) - 1)) ELSE s

\* str.strip()
Strip(s) == RStrip(LStrip(s))

(***************************************************************************)
(* Floats.  A Python float is modelled as a decimal floating point number  *)
(* [m, e] of value m * 10^e whose mantissa m is 0 or has exactly 8 digits  *)
(* (10^7 <= |m| < 10^8); every operation truncates its exact result to 8   *)
(* digits, as an IEEE operation rounds to 53 bits.  All intermediate       *)
(* integers stay below 2^31.                                               *)
(***************************************************************************)
RECURSIVE Pow10(_)
Pow10(k) == IF k = 0 THEN 1 ELSE 10 * Pow10(k - 1)

Abs(n) == IF n < 0 THEN -n ELSE n

Sign(n) == IF n < 0 THEN -1 ELSE 1

\* Integer division truncating toward zero.
Quot(n, d) == IF n < 0 THEN -((-n) \div d) ELSE n \div d

\* The float of value m * 10^e, its mantissa brought to 8 digits.
RECURSIVE Norm(_, _)
Norm(m, e) ==
    IF m = 0 THEN [m |-> 0, e |-> 0]
    ELSE IF m >= 100000000 \/ m <= -100000000 THEN Norm(Quot(m, 10), e + 1)
    ELSE IF m < 10000000 /\ m > -10000000 THEN Norm(m * 10, e - 1)
    ELSE [m |-> m, e |-> e]

\* The float of the decimal literal n * 10^e.
Flt(n, e) == Norm(n, e)

FNeg(x) == [m |-> -x.m, e |-> x.e]

\* hi + lo where hi has the larger exponent: lo's digits below hi's are dropped.
AddAligned(hi, lo) ==
    IF hi.e - lo.e > 8 THEN hi
    ELSE Norm(hi.m + Quot(lo.m, Pow10(hi.e - lo.e)), hi.e)

\* x + y
FAdd(x, y) ==
    IF x.m = 0 THEN y
    ELSE IF y.m = 0 THEN x
    ELSE IF x.e >= y.e THEN AddAligned(x, y)
    ELSE AddAligned(y, x)

\* x - y
FSub(x, y) == FAdd(x, FNeg(y))

\* The high 8 digits of the 16-digit product a * b of two 8-digit mantissas,
\* formed from their 4-digit halves.
MulHigh(a, b) ==
    (a \div 10000) * (b \div 10000)
    + ( (a \div 10000) * (b % 10000) + (a % 10000) * (b \div 10000)
        + ((a % 10000) * (b % 10000)) \div 10000 ) \div 10000

\* x * y
FMul(x, y) ==
    Norm(Sign(x.m) * Sign(y.m) * MulHigh(Abs(x.m), Abs(y.m)), x.e + y.e + 8)

\* x / k for a small positive integer k.
FDivInt(x, k) == Norm(Quot(x.m * 10, k), x.e - 1)

\* floor(x * 10^k) for x >= 0.
FScaled(x, k) ==
    IF x.e + k >= 0 THEN x.m * Pow10(x.e + k)
    ELSE IF x.e + k < -8 THEN 0
    ELSE x.m \div Pow10(-(x.e + k))

\* int(x) for x >= 0.
FInt(x) == FScaled(x, 0)

\* x rounded to k decimals, as the integer round(x * 10^k), for x >= 0.
FRound(x, k) == (FScaled(x, k + 1) + 5) \div 10

\* Whether r * r <= n * 10^8 (to one unit), r * r formed from 4-digit halves.
SqLeq(r, n) ==
    (r \div 10000) * (r \div 10000)
    + (2 * (r \div 10000) * (r % 10000) + ((r % 10000) * (r % 10000)) \div 10000) \div 10000
    <= n

\* The largest r in lo..hi with SqLeq(r, n), by bisection.
RECURSIVE SqrtSearch(_, _, _)
SqrtSearch(lo, hi, n) ==
    IF lo >= hi THEN lo
    ELSE IF SqLeq((lo + hi + 1) \div 2, n) THEN SqrtSearch((lo + hi + 1) \div 2, hi, n)
    ELSE SqrtSearch(lo, (lo + hi + 1) \div 2 - 1, n)

\* math.sqrt(x) for x >= 0: with the exponent made even, the 8 digits of the
\* mantissa's square root are found by bisection.
FSqrt(x) ==
    IF x.m = 0 THEN x
    ELSE IF x.e % 2 # 0 THEN Norm(SqrtSearch(0, 316227766, x.m * 10), ((x.e - 1) \div 2) - 4)
    ELSE Norm(SqrtSearch(0, 316227766, x.m), (x.e \div 2) - 4)

FOne == [m |-> 10000000, e |-> -7]

\* x - x^3/3! + x^5/5! - x^7/7! in Horner form, x2 = x * x.
SinSeries(x, x2) ==
    FMul(x, FSub(FOne, FMul(FDivInt(x2, 6),
            FSub(FOne, FMul(FDivInt(x2, 20),
            FSub(FOne, FDivInt(x2, 42)))))))

\* math.sin(x): the Taylor series to x^7 (exact to the mantissa for |x| <= 0.1).
FSin(x) == SinSeries(x, FMul(x, x))

\* 1 - x^2/2! + ... + x^12/12! in Horner form, x2 = x * x.
CosSeries(x2) ==
    FSub(FOne, FMul(FDivInt(x2, 2),
    FSub(FOne, FMul(FDivInt(x2, 12),
    FSub(FOne, FMul(FDivInt(x2, 30),
    FSub(FOne, FMul(FDivInt(x2, 56),
    FSub(FOne, FMul(FDivInt(x2, 90),
    FSub(FOne, FDivInt(x2, 132))))))))))))

\* math.cos(x): the Taylor series to x^12 (exact to the mantissa for |x| <= 1).
FCos(x) == CosSeries(FMul(x, x))

\* y + y^3/6 + 3y^5/40 + 15y^7/336 in Horner form, y2 = y * y.
AsinSeries(y, y2) ==
    FMul(y, FAdd(FOne, FMul(FDivInt(y2, 6),
            FAdd(FOne, FMul(FDivInt(FMul(Flt(9, 0), y2), 20),
            FAdd(FOne, FDivInt(FMul(Flt(25, 0), y2), 42)))))))

\* math.asin(y): the Taylor series to y^7 (exact to the mantissa for |y| <= 0.1).
FAsin(y) == AsinSeries(y, FMul(y, y))

\* math.radians(x): x * (pi / 180).
FRadians(x) == FMul(x, Flt(17453293, -9))

(***************************************************************************)
(* Data model and knowledge base.                                          *)
(***************************************************************************)
\* Location: the fields the core reads (name, lat, lon).
Location(name, lat, lon) == [name |-> name, lat |-> lat, lon |-> lon]

\* ParisKB.__init__: self.locations
locations ==
    << Location("Eiffel Tower",    Flt(488584, -4), Flt(22945, -4)),
       Location("Louvre Museum",   Flt(488606, -4), Flt(23376, -4)),
       Location("Arc de Triomphe", Flt(488738, -4), Flt(22950, -4)) >>

\* Mutant of HaversineH: the longitude term lacks cos(la1) * cos(la2).
HaversineH_NoCos(dlat, dlon, la1, la2) ==
    FAdd(FMul(FSin(FDivInt(dlat, 2)), FSin(FDivInt(dlat, 2))),
         FMul(FSin(FDivInt(dlon, 2)), FSin(FDivInt(dlon, 2))))

\* haversine_km: h from dlat, dlon, la1, la2 (all in radians).
HaversineH(dlat, dlon, la1, la2) ==
    FAdd(FMul(FSin(FDivInt(dlat, 2)), FSin(FDivInt(dlat, 2))),
         FMul(FMul(FCos(la1), FCos(la2)),
              FMul(FSin(FDivInt(dlon, 2)), FSin(FDivInt(dlon, 2)))))

\* haversine_km: R = 6371.0
haversine_km(a, b) ==
    FMul(FMul(Flt(2, 0), Flt(63710, -1)),
         FAsin(FSqrt(HaversineH(FRadians(FSub(b.lat, a.lat)),
                                FRadians(FSub(b.lon, a.lon)),
                                FRadians(a.lat),
                                FRadians(b.lat)))))

\* The loop of find from location i on, over the lowered name.
RECURSIVE FindFrom(_, _)
FindFrom(i, name) ==
    IF i > Len(locations) THEN None
    ELSE IF Lower(locations[i].name) = name THEN Some(locations[i])
    ELSE FindFrom(i + 1, name)

\* Mutant of find: the name looked up is not lowered.
find_CaseSensitive(name) == FindFrom(1, name)

\* ParisKB.find
find(name) == FindFrom(1, Lower(name))

\* The digits of h hundredths: h / 100 with two decimals.
Hundredths(h) ==
    ToString(h \div 100) \o "." \o (IF h % 100 < 10 THEN "0" ELSE "") \o ToString(h % 100)

\* The format spec  :.2f  applied to x >= 0.
Fmt2(x) == Hundredths(FRound(x, 2))

\* distance_report: the sentence for the locations A and B, km apart.
Sentence(A, B, km) ==
    A.name \o " → " \o B.name \o ": " \o Fmt2(km) \o " km ("
    \o Fmt2(FMul(km, Flt(621371, -6))) \o " miles). "
    \o "Walking ~" \o ToString(FInt(FMul(km, Flt(12, 0)))) \o " min"
    \o ", Metro ~" \o ToString(FInt(FAdd(FMul(km, Flt(3, 0)), Flt(5, 0)))) \o " min" \o "."

\* distance_report once both names are looked up (A, B: Optional[Location]).
ReportFor(A, B) ==
    IF A = None \/ B = None THEN None
    ELSE Some(Sentence(A[1], B[1], haversine_km(A[1], B[1])))

\* ParisKB.distance_report
distance_report(a, b) == ReportFor(find(a), find(b))

(***************************************************************************)
(* Regular expressions (the subset of re the pattern table uses).  A       *)
(* pattern is a sequence of alternatives (a|b); an alternative is a        *)
(* sequence of atoms: a literal string, an optional character class        *)
(* ([..]?), .* and \b.                                                     *)
(***************************************************************************)
Lit(s) == [k |-> "lit", s |-> s]

OptClass(cs) == [k |-> "opt", cs |-> cs]

DotStar == [k |-> "dotstar"]

WordB == [k |-> "wb"]

\* The characters \w matches.
WordChars == CharsOf(LowerLetters) \cup CharsOf(UpperLetters) \cup CharsOf("0123456789_")

\* \w
IsWordChar(c) == c \in WordChars

\* \b at the position before t[j]: exactly one side is a word character.
AtWordBoundary(t, j) ==
    (j > 1 /\ IsWordChar(CharAt(t, j - 1))) # (j <= Len(t) /\ IsWordChar(CharAt(t, j)))

\* Whether atoms i.. of the alternative a match t from position j on.
RECURSIVE MatchHere(_, _, _, _)
MatchHere(a, i, t, j) ==
    IF i > Len(a) THEN TRUE
    ELSE CASE a[i].k = "lit" ->
                /\ j + Len(a[i].s) - 1 <= Len(t)
                /\ SubSeq(t, j, j + Len(a[i].s) - 1) = a[i].s
                /\ MatchHere(a, i + 1, t, j + Len(a[i].s))
           [] a[i].k = "opt" ->
                \/ /\ j <= Len(t)
                   /\ CharAt(t, j) \in a[i].cs
                   /\ MatchHere(a, i + 1, t, j + 1)
                \/ MatchHere(a, i + 1, t, j)
           [] a[i].k = "dotstar" ->
                \* .* stops here, or takes one more character that is no newline
                \/ MatchHere(a, i + 1, t, j)
                \/ /\ j <= Len(t)
                   /\ CharAt(t, j) # "\n"
                   /\ MatchHere(a, i, t, j + 1)
           [] a[i].k = "wb" ->
                /\ AtWordBoundary(t, j)
                /\ MatchHere(a, i + 1, t, j)

\* re.search(p, t) is not None
Search(p, t) ==
    \E n \in 1..Len(p) : \E j \in 1..(Len(t) + 1) : MatchHere(p[n], 1, t, j)

(***************************************************************************)
(* Intent classifier.                                                      *)
(***************************************************************************)
\* IntentClassifier.PATTERNS, in the dict's (insertion) order.
PATTERNS ==
    << [intent |-> "distance",
        pats   |-> << << <<Lit("how far")>> >>,
                      << <<Lit("distance")>> >>,
                      << <<Lit("miles")>> >>,
                      << <<Lit("kilometers")>> >> >>],
       [intent |-> "where",
        pats   |-> << << <<Lit("where"), DotStar, Lit("arc de triomphe")>> >>,
                      << <<Lit("where"), DotStar, Lit("eiffel")>> >>,
                      << <<Lit("where"), DotStar, Lit("louvre")>> >> >>],
       [intent |-> "mustsee",
        pats   |-> << << <<Lit("must"), OptClass({"-", " "}), Lit("see"), DotStar, Lit("louvre")>> >>,
                      << <<Lit("what"), DotStar, Lit("see"), DotStar, Lit("louvre")>> >>,
                      << <<Lit("top"), DotStar, Lit("louvre")>> >> >>],
       [intent |-> "greet",
        pats   |-> << << <<WordB, Lit("hi"), WordB>>,
                         <<WordB, Lit("hello"), WordB>>,
                         <<WordB, Lit("bonjour"), WordB>> >> >>] >>

\* Mutant of ClassifyFrom: no early return, the last matching entry wins.
RECURSIVE ClassifyFrom_LastWins(_, _)
ClassifyFrom_LastWins(t, i) ==
    IF i > Len(PATTERNS) THEN "general"
    ELSE IF ClassifyFrom_LastWins(t, i + 1) # "general" THEN ClassifyFrom_LastWins(t, i + 1)
    ELSE IF \E n \in 1..Len(PATTERNS[i].pats) : Search(PATTERNS[i].pats[n], t)
         THEN PATTERNS[i].intent
         ELSE "general"

\* The loops of classify from table entry i on, over the lowered text t.
RECURSIVE ClassifyFrom(_, _)
ClassifyFrom(t, i) ==
    IF i > Len(PATTERNS) THEN "general"
    ELSE IF \E n \in 1..Len(PATTERNS[i].pats) : Search(PATTERNS[i].pats[n], t)
         THEN PATTERNS[i].intent
         ELSE ClassifyFrom(t, i + 1)

\* IntentClassifier.classify
classify(text) == ClassifyFrom(Lower(text), 1)

(***************************************************************************)
(* Gateway and router.                                                     *)
(***************************************************************************)
\* What the external chat-completions service does with one request: it fails
\* (the client call raises) or it answers with a message content.
ModelContents == {"It is sunny today.", "  Bonjour !\n"}

GatewayOutcomes ==
    {[raises |-> TRUE]} \cup {[raises |-> FALSE, content |-> c] : c \in ModelContents}

\* ChatClient.reply under the service outcome o.
reply(msgs, o) ==
    IF o.raises THEN [raised |-> TRUE]
    ELSE [raised |-> FALSE, text |-> Strip(o.content)]

\* ParisAssistant.__init__: self.conversation
InitialConversation ==
    << [role |-> "system",
        content |-> "You are a concise Paris travel guide. Answer accurately and briefly."],
       [role |-> "user", content |-> "What is the most famous landmark in Paris?"],
       [role |-> "assistant",
        content |-> "The most famous landmark in Paris is the Eiffel Tower."] >>

ArcAnswer ==
    "The Arc de Triomphe is at Place Charles de Gaulle, western end of the Champs-Élysées."

LouvreAnswer ==
    "Must-see works at the Louvre include: Mona Lisa, Winged Victory of Samothrace, "
    \o "Venus de Milo, The Coronation of Napoleon, and Liberty Leading the People."

\* Python truthiness of an Optional[str].
Truthy(r) == r # None /\ r[1] # ""

\* Mutant of LocalRoute: the distance branch answers only a question that
\* names both the Louvre and the Eiffel Tower.
LocalRoute_NamedPair(intent_, q, r) ==
    IF intent_ = "distance" /\ Contains(q, "louvre") /\ Contains(q, "eiffel") /\ Truthy(r)
    THEN [path |-> "distance", text |-> r[1]]
    ELSE IF intent_ = "where" /\ Contains(q, "arc de triomphe")
         THEN [path |-> "where", text |-> ArcAnswer]
    ELSE IF intent_ = "mustsee" /\ Contains(q, "louvre")
         THEN [path |-> "mustsee", text |-> LouvreAnswer]
    ELSE [path |-> "fallback"]

\* Mutant of LocalRoute: the where branch lacks its substring guard.
LocalRoute_NoGuard(intent_, q, r) ==
    IF intent_ = "distance" /\ Truthy(r) THEN [path |-> "distance", text |-> r[1]]
    ELSE IF intent_ = "where" THEN [path |-> "where", text |-> ArcAnswer]
    ELSE IF intent_ = "mustsee" /\ Contains(q, "louvre")
         THEN [path |-> "mustsee", text |-> LouvreAnswer]
    ELSE [path |-> "fallback"]

\* answer, the deterministic branches, given intent = classify(question),
\* q = question.lower() and r = the distance report (read only when the
\* intent is distance): the branch taken and the text it returns.
LocalRoute(intent_, q, r) ==
    IF intent_ = "distance" /\ Truthy(r) THEN [path |-> "distance", text |-> r[1]]
    ELSE IF intent_ = "where" /\ Contains(q, "arc de triomphe")
         THEN [path |-> "where", text |-> ArcAnswer]
    ELSE IF intent_ = "mustsee" /\ Contains(q, "louvre")
         THEN [path |-> "mustsee", text |-> LouvreAnswer]
    ELSE [path |-> "fallback"]

\* Mutant of AppendUser: the lowered question q is stored instead of the raw one.
AppendUser_Lowered(conv, question_) ==
    Append(conv, [role |-> "user", content |-> Lower(question_)])

\* self.conversation.append({"role": "user", "content": question})
AppendUser(conv, question_) == Append(conv, [role |-> "user", content |-> question_])

\* Mutant of AppendAssistant: the reply is returned but not recorded.
AppendAssistant_Dropped(conv, text) == conv

\* self.conversation.append({"role": "assistant", "content": reply})
AppendAssistant(conv, text) == Append(conv, [role |-> "assistant", content |-> text])

\* Mutant of AfterReply: a failed call leaves a placeholder assistant message.
AfterReply_Placeholder(c1, rep) ==
    IF rep.raised
    THEN [conversation |-> AppendAssistant(c1, ""), returned |-> None, raised |-> TRUE,
          invoked |-> 1, messages |-> c1, path |-> "fallback"]
    ELSE [conversation |-> AppendAssistant(c1, rep.text), returned |-> Some(rep.text),
          raised |-> FALSE, invoked |-> 1, messages |-> c1, path |-> "fallback"]

\* answer after the gateway call on the conversation c1 ended as rep: a
\* failure propagates, a reply is appended and returned.
AfterReply(c1, rep) ==
    IF rep.raised
    THEN [conversation |-> c1, returned |-> None, raised |-> TRUE,
          invoked |-> 1, messages |-> c1, path |-> "fallback"]
    ELSE [conversation |-> AppendAssistant(c1, rep.text), returned |-> Some(rep.text),
          raised |-> FALSE, invoked |-> 1, messages |-> c1, path |-> "fallback"]

\* answer from the gateway call on: one call, given the conversation c1.
CallGateway(c1, o) == AfterReply(c1, reply(c1, o))

\* ParisAssistant.answer, the fallback.
Fallback(conv, question_, o) == CallGateway(AppendUser(conv, question_), o)

\* Mutant of Routed: the question is logged to the conversation on every branch.
Routed_LogsQuestion(conv, question_, o, local) ==
    IF local.path # "fallback"
    THEN [conversation |-> AppendUser(conv, question_), returned |-> Some(local.text),
          raised |-> FALSE, invoked |-> 0, messages |-> << >>, path |-> local.path]
    ELSE Fallback(conv, question_, o)

\* answer, given the branch its deterministic part took.
Routed(conv, question_, o, local) ==
    IF local.path # "fallback"
    THEN [conversation |-> conv, returned |-> Some(local.text), raised |-> FALSE,
          invoked |-> 0, messages |-> << >>, path |-> local.path]
    ELSE Fallback(conv, question_, o)

\* answer, given intent = classify(question).
Dispatch(conv, question_, o, intent_) ==
    [intent |-> intent_]
    @@ Routed(conv, question_, o,
              LocalRoute(intent_, Lower(question_),
                         distance_report("Louvre Museum", "Eiffel Tower")))

\* ParisAssistant.answer: the conversation after the call, what the call
\* returned or that it raised, its gateway invocations with the messages
\* given, the branch taken and the intent classify found.
answer(conv, question_, o) == Dispatch(conv, question_, o, classify(question_))

(***************************************************************************)
(* Inputs.                                                                 *)
(***************************************************************************)
MaxCalls == 3

MaxFrags == 3

\* Questions put to a session.
SampleQuestions ==
    { "How far is the Louvre from the Eiffel Tower?",
      "Where is the Arc de Triomphe?",
      "What are the must-see works at the Louvre?",
      "What's the weather like?",
      "Where is the Eiffel Tower?",
      "Hello there!" }

Fragments ==
    { "Where is the ", "How far is the ", "Louvre", "Eiffel Tower", "Arc de Triomphe",
      "must-see ", "What to see at the ", "Hi " }

ExtraTexts ==
    { "Where is\nthe Louvre?", "must see\nthe louvre", "this is it", "smiles at the louvre",
      "hi5", "oh, HELLO!", "Bonjour", "bonjours", "DISTANCE to the arc de triomphe",
      "where is the louvre in kilometers", "mustsee the Louvre", "must  see the Louvre",
      "How\nfar", "hello, what can I see in the louvre", "Top 5 at the Louvre",
      "the Louvre is top" }

RECURSIVE TextsUpTo(_)
TextsUpTo(n) ==
    IF n = 0 THEN {""}
    ELSE {f \o t : f \in Fragments \cup {""}, t \in TextsUpTo(n - 1)}

\* Every text of at most MaxFrags fragments, and the extra ones.
Texts == TextsUpTo(MaxFrags) \cup ExtraTexts \cup SampleQuestions

\* Names given to distance_report.
Names ==
    { "Eiffel Tower", "Louvre Museum", "Arc de Triomphe", "eiffel tower", "LOUVRE MUSEUM",
      "arc De triomphe", "Louvre", "Eiffel", "Louvre Museum ", "the Louvre Museum",
      "Notre-Dame", "" }

(***************************************************************************)
(* Specifications.                                                         *)
(***************************************************************************)
\* A fresh session: the state after ParisAssistant.__init__.
Init ==
    /\ conversation = InitialConversation
    /\ before = InitialConversation
    /\ question = ""
    /\ returned = None
    /\ raised = FALSE
    /\ invoked = 0
    /\ messages = << >>
    /\ outcome = None
    /\ path = "none"
    /\ calls = 0
    /\ fallbacks = 0
    /\ failures = 0
    /\ intent = None
    /\ nameA = ""
    /\ nameB = ""
    /\ report = None

\* One call answer(q) during which the service behaves as o.
Answer(q, o) ==
    \E res \in {answer(conversation, q, o)} :
        /\ conversation' = res.conversation
        /\ before' = conversation
        /\ question' = q
        /\ returned' = res.returned
        /\ raised' = res.raised
        /\ invoked' = res.invoked
        /\ messages' = res.messages
        /\ outcome' = IF res.invoked > 0 THEN Some(o) ELSE None
        /\ path' = res.path
        /\ intent' = Some(res.intent)
        /\ calls' = calls + 1
        /\ fallbacks' = fallbacks + (IF res.path = "fallback" THEN 1 ELSE 0)
        /\ failures' = failures + (IF res.raised THEN 1 ELSE 0)
        /\ UNCHANGED <<nameA, nameB, report>>

\* A session: up to MaxCalls questions, one after the other.
Next ==
    /\ calls < MaxCalls
    /\ \E q \in SampleQuestions : \E o \in GatewayOutcomes : Answer(q, o)

Spec == Init /\ [][Next]_vars

\* One question, any text, put to a fresh session.
NextRoute ==
    /\ calls = 0
    /\ \E q \in Texts : \E o \in GatewayOutcomes : Answer(q, o)

SpecRoute == Init /\ [][NextRoute]_vars

\* classify applied to any text.
InitClassify ==
    /\ question \in Texts
    /\ intent = None
    /\ conversation = InitialConversation
    /\ before = InitialConversation
    /\ returned = None
    /\ raised = FALSE
    /\ invoked = 0
    /\ messages = << >>
    /\ outcome = None
    /\ path = "none"
    /\ calls = 0
    /\ fallbacks = 0
    /\ failures = 0
    /\ nameA = ""
    /\ nameB = ""
    /\ report = None

Classify ==
    /\ intent = None
    /\ \E text \in {question} : intent' = Some(classify(text))
    /\ UNCHANGED <<conversation, before, question, returned, raised, invoked, messages,
                   outcome, path, calls, fallbacks, failures, nameA, nameB, report>>

SpecClassify == InitClassify /\ [][Classify]_vars

\* distance_report applied to any pair of names.
InitKB ==
    /\ nameA \in Names
    /\ nameB \in Names
    /\ report = None
    /\ conversation = InitialConversation
    /\ before = InitialConversation
    /\ question = ""
    /\ returned = None
    /\ raised = FALSE
    /\ invoked = 0
    /\ messages = << >>
    /\ outcome = None
    /\ path = "none"
    /\ calls = 0
    /\ fallbacks = 0
    /\ failures = 0
    /\ intent = None

Report ==
    /\ report = None
    /\ \E a \in {nameA}, b \in {nameB} : report' = Some(distance_report(a, b))
    /\ UNCHANGED <<conversation, before, question, returned, raised, invoked, messages,
                   outcome, path, calls, fallbacks, failures, intent, nameA, nameB>>

SpecKB == InitKB /\ [][Report]_vars

(***************************************************************************)
(* Properties.                                                             *)
(***************************************************************************)
UserMessage(text) == [role |-> "user", content |-> text]

AssistantMessage(text) == [role |-> "assistant", content |-> text]

\* The report answer gives on the distance branch.
FixedReport == distance_report("Louvre Museum", "Eiffel Tower")

\* C1 (as amended): as long as no gateway call has failed, the conversation
\* holds the 3 seeded messages (the system prompt and one user/assistant
\* exchange) and 2 messages per fallback call: its length is 3 + 2N, and 3
\* in a fresh session.
C1_Length == failures = 0 => Len(conversation) = 3 + 2 * fallbacks

\* C1 as stated: the length is 2 + 2N, 2 in a fresh session.
C1_Original == failures = 0 => Len(conversation) = 2 + 2 * fallbacks

C1_Witness == failures = 0 /\ calls = 3 /\ fallbacks = 2

\* C2: a call that returns through the distance, where or mustsee branch
\* does not invoke the gateway and leaves the conversation exactly as it was.
C2_LocalFrame ==
    path \in {"distance", "where", "mustsee"} =>
        /\ invoked = 0
        /\ outcome = None
        /\ messages = << >>
        /\ ~raised
        /\ returned # None
        /\ conversation = before

C2_Witness ==
    /\ path = "where"
    /\ Len(before) > Len(InitialConversation)
    /\ conversation = before

\* C3: a fallback call whose gateway call succeeds appends exactly the user
\* message with the raw question and then the assistant message with the
\* reply, invokes the gateway once, with the whole conversation ending in that
\* user message, and returns the gateway's reply unchanged.
C3_FallbackAppends ==
    (path = "fallback" /\ ~raised) =>
        /\ invoked = 1
        /\ outcome # None
        /\ messages = Append(before, UserMessage(question))
        /\ returned = Some(reply(messages, outcome[1]).text)
        /\ conversation = before \o <<UserMessage(question), AssistantMessage(returned[1])>>

C3_Witness ==
    /\ path = "fallback"
    /\ ~raised
    /\ Len(before) > Len(InitialConversation)
    /\ question # Lower(question)
    /\ outcome[1].content # returned[1]

\* C4: a question classified as distance gets the report for Louvre Museum and
\* Eiffel Tower, whatever it names or else matches; that report is never
\* absent and the gateway is not reached.
C4_DistanceFixedPair ==
    intent = Some("distance") =>
        /\ FixedReport # None
        /\ returned = FixedReport
        /\ path = "distance"
        /\ invoked = 0
        /\ conversation = before

C4_Witness ==
    /\ intent = Some("distance")
    /\ Contains(Lower(question), "where is the arc de triomphe")
    /\ ~Contains(Lower(question), "louvre")
    /\ returned = FixedReport

\* C5: a question not classified as distance takes the fallback exactly when
\* neither (intent where and "arc de triomphe" in the lowered question) nor
\* (intent mustsee and "louvre" in the lowered question) holds; the two
\* guarded cases return their fixed sentence.
C5_FallbackExactly ==
    (calls > 0 /\ intent # Some("distance")) =>
        \A q \in {Lower(question)} :
            /\ (path = "fallback") <=>
                   /\ ~(intent = Some("where") /\ Contains(q, "arc de triomphe"))
                   /\ ~(intent = Some("mustsee") /\ Contains(q, "louvre"))
            /\ (path = "fallback") <=> (invoked = 1)
            /\ (intent = Some("where") /\ Contains(q, "arc de triomphe"))
                   => returned = Some(ArcAnswer)
            /\ (intent = Some("mustsee") /\ Contains(q, "louvre"))
                   => returned = Some(LouvreAnswer)

C5_Witness ==
    /\ intent = Some("where")
    /\ Contains(Lower(question), "eiffel")
    /\ path = "fallback"
    /\ invoked = 1

Intents == {"distance", "where", "mustsee", "greet", "general"}

\* Whether some pattern the table lists for the intent matches the text t.
MatchesIntent(name, t) ==
    \E k \in 1..Len(PATTERNS) :
        /\ PATTERNS[k].intent = name
        /\ \E n \in 1..Len(PATTERNS[k].pats) : Search(PATTERNS[k].pats[n], t)

\* C6: classify returns, for every text, the first of distance, where,
\* mustsee, greet one of whose patterns matches the lowered text, and general
\* when none does.
C6_FirstInTableOrder ==
    intent # None =>
        \A t \in {Lower(question)} :
            /\ intent[1] \in Intents
            /\ intent[1] = IF MatchesIntent("distance", t) THEN "distance"
                           ELSE IF MatchesIntent("where", t) THEN "where"
                           ELSE IF MatchesIntent("mustsee", t) THEN "mustsee"
                           ELSE IF MatchesIntent("greet", t) THEN "greet"
                           ELSE "general"

C6_Witness ==
    /\ intent = Some("distance")
    /\ MatchesIntent("where", Lower(question))
    /\ question # Lower(question)

\* C7: when the gateway call of the fallback fails, the gateway was invoked
\* exactly once, the failure reaches the caller, no text is returned and no
\* assistant message is appended.
C7_FailurePropagates ==
    raised =>
        /\ path = "fallback"
        /\ invoked = 1
        /\ outcome = Some([raises |-> TRUE])
        /\ returned = None
        /\ conversation = Append(before, UserMessage(question))

C7_Witness == raised /\ Len(before) > Len(InitialConversation)

\* Whether n is, in full and up to letter case, the name of a stored location.
KnownName(n) == \E i \in 1..Len(locations) : Lower(locations[i].name) = Lower(n)

\* C8: distance_report returns absent exactly when one of its two names is
\* not, in full and up to letter case, the name of a stored location.
C8_AbsentIffUnknown ==
    report # None => ((report[1] = None) <=> (~KnownName(nameA) \/ ~KnownName(nameB)))

C8_Witness ==
    /\ nameA = "LOUVRE MUSEUM"
    /\ nameB = "eiffel tower"
    /\ report # None
    /\ report[1] # None

\* C9 (as amended): the question "How far is the Louvre from the Eiffel
\* Tower?" is answered by a string beginning "Louvre Museum → Eiffel Tower:
\* 3.16 km": the haversine distance of the stored coordinates, to 2 decimals,
\* is 3.16.
C9_Distance316 ==
    (calls > 0 /\ question = "How far is the Louvre from the Eiffel Tower?") =>
        /\ returned # None
        /\ \E p \in {"Louvre Museum → Eiffel Tower: 3.16 km"} : SubSeq(returned[1], 1, Len(p)) = p

\* C9 as stated: the string begins "Louvre Museum → Eiffel Tower: 3.21 km".
C9_Original ==
    (calls > 0 /\ question = "How far is the Louvre from the Eiffel Tower?") =>
        /\ returned # None
        /\ \E p \in {"Louvre Museum → Eiffel Tower: 3.21 km"} : SubSeq(returned[1], 1, Len(p)) = p

C9_Witness ==
    /\ calls = 2
    /\ question = "How far is the Louvre from the Eiffel Tower?"
    /\ returned = FixedReport
    /\ \E p \in {"Louvre Museum → Eiffel Tower: 3.16 km (1.97 miles)"} : SubSeq(returned[1], 1, Len(p)) = p

\* C10: between answer calls the conversation is well formed: after the
\* system message the roles alternate user, assistant, and the last message
\* is an assistant message.
C10_WellFormed ==
    /\ conversation[1].role = "system"
    /\ \A i \in 2..Len(conversation) :
           conversation[i].role = (IF i % 2 = 0 THEN "user" ELSE "assistant")
    /\ conversation[Len(conversation)].role = "assistant"

====
